---- MODULE Spec2Model ----
(***************************************************************************)
(* Model of src/app.py: the PSX KSE-100 "elite" scanner.                   *)
(*                                                                         *)
(* Numbers.  Python floats are modelled as exact rationals plus the IEEE   *)
(* specials the code can produce: a value is a record [k, n, d] where k is *)
(* "fin" (the rational n/d in lowest terms, d > 0), "nan", "inf", "ninf",  *)
(* or "null" (a JSON null, Python's None, as a provider may send it).      *)
(* Binary rounding error of floats is not modelled.                        *)
(***************************************************************************)
EXTENDS Integers, Sequences, FiniteSets, TLC

VARIABLES
    pc,                \* position of main(): "idle", "scanning", "returned", "shown" ("crashed" if the scan
                       \* is left by an exception); for a single call "ready", then "analyzed" or "rsi"
    i,                 \* run_kse100_scan: number of symbols of the universe already handled
    signals,           \* run_kse100_scan: the list `signals`
    successful_scans,  \* run_kse100_scan: the counter `successful_scans`
    failed_scans,      \* run_kse100_scan: the counter `failed_scans`
    usable,            \* per handled symbol: did the provider supply usable data (bar with close > 0, >= 15 closes)
    symbol,            \* the symbol of the last call of analyze_elite_signal
    resp_eod,          \* the provider's answer to fetch_eod_data's request in that call
    resp_hist,         \* the provider's answer to fetch_historical_data's request in that call
    signal,            \* what that call returned
    raised,            \* TRUE when that call let an exception escape to its caller
    shown,             \* main(): the list handed to the display loop
    closes_in,         \* argument of a direct call of calculate_rsi
    rsi_out            \* what that call returned

vars == <<pc, i, signals, successful_scans, failed_scans, usable, symbol, resp_eod,
          resp_hist, signal, raised, shown, closes_in, rsi_out>>

-----------------------------------------------------------------------------
(* Floats as exact rationals with NaN and infinities *)

RECURSIVE GCD(_, _)
GCD(a, b) == IF b = 0 THEN a ELSE GCD(b, a % b)

Abs(x) == IF x < 0 THEN -x ELSE x

\* the float n/d (d # 0), in lowest terms with a positive denominator
F(n, d) ==
    LET g == GCD(Abs(n), Abs(d))
        s == IF d < 0 THEN -1 ELSE 1
    IN  [k |-> "fin", n |-> (s * n) \div g, d |-> (s * d) \div g]

NaN  == [k |-> "nan",  n |-> 0, d |-> 1]
Inf  == [k |-> "inf",  n |-> 1, d |-> 1]
NInf == [k |-> "ninf", n |-> -1, d |-> 1]
Null == [k |-> "null", n |-> 0, d |-> 1]

IsFin(x) == x.k = "fin"
IsNum(x) == x.k \in {"fin", "nan", "inf", "ninf"}

\* sign of a float that is not NaN: -1, 0, 1
Sgn(x) ==
    CASE x.k = "inf"  -> 1
      [] x.k = "ninf" -> -1
      [] OTHER        -> IF x.n > 0 THEN 1 ELSE IF x.n < 0 THEN -1 ELSE 0

FNeg(x) ==
    CASE x.k = "fin"  -> F(-x.n, x.d)
      [] x.k = "inf"  -> NInf
      [] x.k = "ninf" -> Inf
      [] OTHER        -> NaN

FAdd(a, b) ==
    CASE a.k = "nan" \/ b.k = "nan"  -> NaN
      [] a.k = "fin" /\ b.k = "fin"  -> F(a.n * b.d + b.n * a.d, a.d * b.d)
      [] a.k = "fin"                 -> b
      [] b.k = "fin"                 -> a
      [] a.k = b.k                   -> a
      [] OTHER                       -> NaN

FSub(a, b) == FAdd(a, FNeg(b))

FMul(a, b) ==
    CASE a.k = "nan" \/ b.k = "nan"  -> NaN
      [] a.k = "fin" /\ b.k = "fin"  -> F(a.n * b.n, a.d * b.d)
      [] Sgn(a) = 0 \/ Sgn(b) = 0    -> NaN
      [] Sgn(a) = Sgn(b)             -> Inf
      [] OTHER                       -> NInf

\* IEEE division as numpy/pandas perform it: x/0 is +-inf, 0/0 is NaN, nothing raises
FDiv(a, b) ==
    CASE a.k = "nan" \/ b.k = "nan"            -> NaN
      [] a.k = "fin" /\ b.k = "fin" /\ b.n # 0 -> F(a.n * b.d, a.d * b.n)
      [] a.k = "fin" /\ b.k = "fin" /\ a.n = 0 -> NaN
      [] a.k = "fin" /\ b.k = "fin"            -> IF a.n > 0 THEN Inf ELSE NInf
      [] a.k = "fin"                           -> F(0, 1)
      [] b.k = "fin"                           -> IF Sgn(a) * (IF b.n < 0 THEN -1 ELSE 1) > 0 THEN Inf ELSE NInf
      [] OTHER                                 -> NaN

\* a < b; every comparison with NaN is false
FLt(a, b) ==
    CASE a.k = "nan" \/ b.k = "nan"  -> FALSE
      [] a.k = "fin" /\ b.k = "fin"  -> a.n * b.d < b.n * a.d
      [] a.k = "ninf"                -> b.k # "ninf"
      [] b.k = "inf"                 -> a.k # "inf"
      [] OTHER                       -> FALSE

FGt(a, b) == FLt(b, a)
FLe(a, b) == a.k # "nan" /\ b.k # "nan" /\ ~FLt(b, a)
FGe(a, b) == FLe(b, a)

\* Python's builtin min(a, b): b if b < a else a.  max(a, b): b if b > a else a.
PyMin(a, b) == IF FLt(b, a) THEN b ELSE a
PyMax(a, b) == IF FGt(b, a) THEN b ELSE a

RECURSIVE Pow10(_)
Pow10(e) == IF e = 0 THEN 1 ELSE 10 * Pow10(e - 1)

\* Python's round(x, nd) on the exact value: nearest multiple of 10^-nd, ties to even
PyRound(x, nd) ==
    IF ~IsFin(x) THEN x
    ELSE LET s   == Pow10(nd)
             q   == x.n * s
             fl  == q \div x.d
             rem == q - fl * x.d
             up  == \/ 2 * rem > x.d
                    \/ (2 * rem = x.d /\ fl % 2 = 1)
         IN  F(IF up THEN fl + 1 ELSE fl, s)

-----------------------------------------------------------------------------
(* PSXKSE100Scanner.__init__: configuration *)

None == [k |-> "None"]

\* the parameters with a stricter min_confidence
strategy_params_strict ==
    [rsi_oversold   |-> F(26, 1),
     volume_surge   |-> F(5, 2),
     min_confidence |-> F(75, 10),
     target_gain    |-> F(28, 10),
     stop_loss      |-> F(8, 10)]

strategy_params ==
    [rsi_oversold   |-> F(26, 1),
     volume_surge   |-> F(5, 2),
     min_confidence |-> F(7, 1),
     target_gain    |-> F(28, 10),
     stop_loss      |-> F(8, 10)]

\* A symbol "T.X" is the record [ticker |-> "T", exch |-> "X"]; a bare "T" has exch = "".
Sym(t, x) == [ticker |-> t, exch |-> x]

Tickers ==
    <<"HBL", "UBL", "MCB", "BAHL", "BAFL", "BOP", "JSBL", "MEBL", "SNBL",
      "OGDC", "PPL", "POL", "PSO", "SNGP", "ATRL", "HASCOL",
      "LUCK", "DGKC", "MLCF", "FCCL", "PIOC", "POWER", "KOHAT",
      "EFERT", "FFC", "FFL", "FATIMA",
      "HUBC", "KAPCO", "KEL",
      "TRG", "SYS", "NETSOL",
      "NESTLE", "COLG", "UPFL", "GLAXO",
      "EPCL", "LOTCHEM",
      "EFUG", "AGIL",
      "NCL", "SILK",
      "ISL", "DAWH", "SEARL", "AVN">>

kse_100_symbols == [j \in 1..Len(Tickers) |-> Sym(Tickers[j], "KAR")]

\* the table's entries in the order of Tickers, and its 'DEFAULT' entry
BaseVolumeTable ==
    <<50000, 45000, 30000, 25000, 35000, 40000, 15000, 30000, 20000,
      48000, 52000, 45000, 55000, 38000, 35000, 45000,
      35000, 30000, 32000, 28000, 18000, 25000, 20000,
      40000, 42000, 38000, 30000,
      40000, 35000, 30000,
      52000, 38000, 12000,
      15000, 8000, 12000, 15000,
      25000, 28000,
      22000, 12000,
      22000, 8000,
      32000, 25000, 18000, 8000>>

BaseVolumeDefault == 25000

\* self.base_volumes.get(symbol, self.base_volumes['DEFAULT'])
base_volumes_get(sym) ==
    IF sym.exch = "KAR" /\ \E j \in 1..Len(Tickers) : Tickers[j] = sym.ticker
    THEN BaseVolumeTable[CHOOSE j \in 1..Len(Tickers) : Tickers[j] = sym.ticker]
    ELSE BaseVolumeDefault

\* symbol.replace('.KAR', '')
StripKAR(sym) == IF sym.exch = "KAR" THEN Sym(sym.ticker, "") ELSE sym

-----------------------------------------------------------------------------
(* The data provider's answers.  An answer to one HTTP request is          *)
(*   [k |-> "exc"]                        the request raised (timeout, ...) *)
(*   [k |-> "http", status, data]         a reply; data is the JSON list    *)
(* and a day of the list is a function from the keys it carries to values. *)

Exc == [k |-> "exc", status |-> 0, data |-> <<>>]
Http(st, data) == [k |-> "http", status |-> st, data |-> data]

HasKey(day, key) == key \in DOMAIN day

\* fetch_eod_data: the body of the try block; a missing key raises KeyError
EodKeys == {"close", "volume", "high", "low", "open", "date"}

fetch_eod_data(sym, resp) ==
    IF resp.k = "exc" THEN None
    ELSE IF resp.status = 200
    THEN LET data == resp.data IN
         IF Len(data) > 0
         THEN LET latest_data == data[Len(data)] IN
              IF \E key \in EodKeys : ~HasKey(latest_data, key)
              THEN None
              ELSE [k           |-> "dict",
                    symbol      |-> sym,
                    close       |-> latest_data["close"],
                    volume      |-> latest_data["volume"],
                    high        |-> latest_data["high"],
                    low         |-> latest_data["low"],
                    open        |-> latest_data["open"],
                    date        |-> latest_data["date"],
                    data_points |-> Len(data)]
         ELSE None
    ELSE None

\* fetch_historical_data: the list of closes, oldest first, or None
fetch_historical_data(sym, resp) ==
    IF resp.k = "exc" THEN None
    ELSE IF resp.status = 200
    THEN LET data == resp.data IN
         IF Len(data) > 0
         THEN IF \E j \in 1..Len(data) : ~HasKey(data[j], "close")
              THEN None
              ELSE [k |-> "list", items |-> [j \in 1..Len(data) |-> data[j]["close"]]]
         ELSE None
    ELSE None

-----------------------------------------------------------------------------
(* calculate_rsi *)

RsiWindow == 14

\* np.diff(closes)
Diff(closes) == [j \in 1..(Len(closes) - 1) |-> FSub(closes[j + 1], closes[j])]

Zero == F(0, 1)

\* np.where(deltas > 0, deltas, 0) and np.where(deltas < 0, -deltas, 0)
Gains(deltas)  == [j \in 1..Len(deltas) |-> IF FGt(deltas[j], Zero) THEN deltas[j] ELSE Zero]
Losses(deltas) == [j \in 1..Len(deltas) |-> IF FLt(deltas[j], Zero) THEN FNeg(deltas[j]) ELSE Zero]

RECURSIVE SumRange(_, _, _)
SumRange(s, lo, hi) == IF lo > hi THEN Zero ELSE FAdd(s[lo], SumRange(s, lo + 1, hi))

\* pd.Series(s).rolling(window).mean(): NaN until `window` values are there
RollingMean(s, window) ==
    [j \in 1..Len(s) |->
        IF j < window THEN NaN
        ELSE FDiv(SumRange(s, j - window + 1, j), F(window, 1))]

Fifty == F(50, 1)
Hundred == F(100, 1)

calculate_rsi(closes, window) ==
    IF Len(closes) < window + 1 THEN Fifty
    ELSE LET deltas     == Diff(closes)
             avg_gains  == RollingMean(Gains(deltas), window)
             avg_losses == RollingMean(Losses(deltas), window)
             rsi == [j \in 1..Len(deltas) |->
                        LET rs == FDiv(avg_gains[j], avg_losses[j])
                        IN  FSub(Hundred, FDiv(Hundred, FAdd(F(1, 1), rs)))]
         IN  IF Len(rsi) > 0 THEN rsi[Len(rsi)] ELSE Fifty

-----------------------------------------------------------------------------
(* analyze_elite_signal *)

Raise == [k |-> "raise"]

MinHistory == 15

\* eod_data['volume'] / base_vol if base_vol > 0 and eod_data['volume'] > 0 else 1
volume_ratio(sym, eod_data) ==
    LET base_vol == base_volumes_get(sym) IN
    IF base_vol > 0 /\ FGt(eod_data.volume, Zero)
    THEN FDiv(eod_data.volume, F(base_vol, 1))
    ELSE F(1, 1)

\* eod_data['close'] > eod_data['open']
bullish_candle(eod_data) == FGt(eod_data.close, eod_data.open)

\* (close - low) / daily_range if daily_range > 0 else 0.5
price_strength(eod_data) ==
    LET daily_range == FSub(eod_data.high, eod_data.low) IN
    IF FGt(daily_range, Zero)
    THEN FDiv(FSub(eod_data.close, eod_data.low), daily_range)
    ELSE F(1, 2)

\* the gate with the candle test left out
Gate_NoCandle(rsi, vr, bullish, strength) ==
    /\ FLt(rsi, F(26, 1))
    /\ FGt(vr, F(5, 2))
    /\ FGt(strength, F(6, 10))

\* the condition of the ELITE STRATEGY if
Gate(rsi, vr, bullish, strength) ==
    /\ FLt(rsi, strategy_params.rsi_oversold)
    /\ FGt(vr, strategy_params.volume_surge)
    /\ bullish
    /\ FGt(strength, F(6, 10))

\* 6.0 + (rsi_factor * 2.5) + (volume_factor - 1) + 0.8, before the clamp
raw_confidence(rsi, vr) ==
    LET rsi_factor    == FDiv(FSub(strategy_params.rsi_oversold, rsi), F(8, 1))
        volume_factor == PyMin(FDiv(vr, F(2, 1)), F(5, 2))
    IN  FAdd(FAdd(FAdd(F(6, 1), FMul(rsi_factor, F(5, 2))),
                  FSub(volume_factor, F(1, 1))),
             F(8, 10))

\* the clamp with its upper limit left out
clamp_no_upper(c) == PyMax(c, Zero)

\* confidence = min(max(confidence, 0), 10)
clamp_confidence(c) == PyMin(PyMax(c, Zero), F(10, 1))

confidence(rsi, vr) == clamp_confidence(raw_confidence(rsi, vr))

target_price(eod_data) ==
    FMul(eod_data.close, FAdd(F(1, 1), FDiv(strategy_params.target_gain, Hundred)))

\* the stop computed with the sign of the target
stop_loss_plus(eod_data) ==
    FMul(eod_data.close, FAdd(F(1, 1), FDiv(F(8, 10), Hundred)))

stop_loss_price(eod_data) ==
    FMul(eod_data.close, FSub(F(1, 1), FDiv(strategy_params.stop_loss, Hundred)))

\* the dict of the return statement
MakeSignal(sym, eod_data, rsi, vr, conf) ==
    [k            |-> "signal",
     symbol       |-> StripKAR(sym),
     price        |-> eod_data.close,
     rsi          |-> PyRound(rsi, 1),
     volume_ratio |-> PyRound(vr, 1),
     confidence   |-> PyRound(conf, 1),
     target       |-> PyRound(target_price(eod_data), 2),
     stop_loss    |-> PyRound(stop_loss_price(eod_data), 2),
     signal       |-> "ELITE_BUY",
     reason       |-> <<PyRound(rsi, 1), PyRound(vr, 1)>>,
     date         |-> eod_data.date]

\* the part of the try block after both fetches returned usable values; a JSON null
\* among the numbers raises TypeError where the code first computes with it
Evaluate(sym, eod_data, closes) ==
    IF \E j \in 1..Len(closes) : closes[j].k = "null" THEN Raise
    ELSE IF eod_data.volume.k = "null" THEN Raise
    ELSE IF eod_data.open.k = "null" THEN Raise
    ELSE IF eod_data.high.k = "null" \/ eod_data.low.k = "null" THEN Raise
    ELSE LET rsi  == calculate_rsi(closes, RsiWindow)
             vr   == volume_ratio(sym, eod_data)
             conf == confidence(rsi, vr)
         IN  IF Gate(rsi, vr, bullish_candle(eod_data), price_strength(eod_data))
             THEN IF FGe(conf, strategy_params.min_confidence)
                  THEN MakeSignal(sym, eod_data, rsi, vr, conf)
                  ELSE None
             ELSE None

\* the try block: a signal, None, or Raise when an exception leaves the block
AnalyzeTry(sym, r_eod, r_hist) ==
    LET eod_data == fetch_eod_data(sym, r_eod) IN
    IF eod_data.k = "None" THEN None
    ELSE IF eod_data.close.k = "null" THEN Raise
    ELSE IF FLe(eod_data.close, Zero) THEN None
    ELSE LET historical_closes == fetch_historical_data(sym, r_hist) IN
         IF historical_closes.k = "None" THEN None
         ELSE IF Len(historical_closes.items) < MinHistory THEN None
         ELSE Evaluate(sym, eod_data, historical_closes.items)

\* the function without its except clause
analyze_no_except(sym, r_eod, r_hist) == AnalyzeTry(sym, r_eod, r_hist)

\* try: ... except: return None
analyze_elite_signal(sym, r_eod, r_hist) ==
    LET r == AnalyzeTry(sym, r_eod, r_hist) IN
    IF r.k = "raise" THEN None ELSE r

-----------------------------------------------------------------------------
(* Stable sort: signals.sort(key=lambda x: x['confidence'], reverse=True) *)

\* a rank that puts later signals of equal confidence first (ascending sort, reversed)
SortRankReversedTies(list, k) ==
    1 + Cardinality({j \in 1..Len(list) :
                        \/ FGt(list[j].confidence, list[k].confidence)
                        \/ (list[j].confidence = list[k].confidence /\ j > k)})

\* the place of list[k] after the sort: behind every signal of higher confidence and
\* every earlier signal of equal confidence (list.sort is stable, also with reverse=True)
SortRank(list, k) ==
    1 + Cardinality({j \in 1..Len(list) :
                        \/ FGt(list[j].confidence, list[k].confidence)
                        \/ (list[j].confidence = list[k].confidence /\ j < k)})

SortByConfidenceDesc(list) ==
    [p \in 1..Len(list) |-> list[CHOOSE k \in 1..Len(list) : SortRank(list, k) = p]]

-----------------------------------------------------------------------------
(* Bounds and the inputs drawn within them *)

NumSymbols == 5     \* the scan visits the first NumSymbols symbols of the universe
MaxLen     == 16    \* longest list of days a provider returns
MaxStep    == 2     \* largest fall between two days, in ticks
MaxRise    == 3     \* most rising days in a list tried on analyze_elite_signal

\* prices move on a quarter-rupee tick
Price(t) == F(t, 4)

\* a day carrying every key, and the same day without a key, or with a JSON null
Day(c, o, h, l, v, dt) ==
    [key \in EodKeys |->
        CASE key = "close"  -> c
          [] key = "open"   -> o
          [] key = "high"   -> h
          [] key = "low"    -> l
          [] key = "volume" -> v
          [] OTHER          -> dt]

Omit(day, key) == [x \in (DOMAIN day) \ {key} |-> day[x]]
SetNull(day, key) == [day EXCEPT ![key] = Null]

\* closes of n days: d falls of sd ticks, then u rises of one tick, then flat,
\* ending at 5 + u ticks
Closes(n, d, sd, u) ==
    [j \in 1..n |->
        Price(5 + d * sd - sd * (IF j - 1 < d THEN j - 1 ELSE d)
                + (IF j - 1 <= d THEN 0 ELSE IF j - 1 - d < u THEN j - 1 - d ELSE u))]

HistShapes ==
    {<<n, d, sd, u>> \in (0..MaxLen) \X (0..MaxLen) \X (1..MaxStep) \X (0..MaxLen) :
        /\ d + u <= n - 1 \/ (n = 0 /\ d = 0 /\ u = 0)
        /\ d = 0 => sd = 1}

\* the JSON list: n days, the last one shaped by the offsets and the volume
Dataset(n, d, sd, u, oo, ho, lo, v) ==
    LET cl == Closes(n, d, sd, u) IN
    [j \in 1..n |->
        IF j < n
        THEN Day(cl[j], cl[j], cl[j], cl[j], F(1000, 1), j)
        ELSE Day(cl[j], FAdd(cl[j], Price(oo)), FAdd(cl[j], Price(ho)),
                 FAdd(cl[j], Price(lo)), F(v, 1), j)]

Volumes == {0, 125000, 125001, 150000, 300000}

\* the ways a provider damages the latest day: a key left out, a JSON null, a
\* close that is not positive
Damages ==
    {<<"whole", "">>}
    \cup {<<"omit", key>> : key \in EodKeys}
    \cup {<<"null", key>> : key \in {"close", "open", "high", "volume"}}
    \cup {<<"zero", "close">>, <<"negative", "close">>}

Damage(data, dmg) ==
    LET n == Len(data) IN
    IF n = 0 THEN data
    ELSE CASE dmg[1] = "omit"     -> [data EXCEPT ![n] = Omit(data[n], dmg[2])]
           [] dmg[1] = "null"     -> [data EXCEPT ![n] = SetNull(data[n], dmg[2])]
           [] dmg[1] = "zero"     -> [data EXCEPT ![n]["close"] = Zero]
           [] dmg[1] = "negative" -> [data EXCEPT ![n]["close"] = Price(-1)]
           [] OTHER               -> data

\* the shapes of the latest day: offsets of open, high and low from the close, in
\* ticks; the candle is bullish, flat or bearish, the close high or low in the range
StrongBar == <<-1, 1, -2>>

BarShapes ==
    {StrongBar, <<-1, 0, -2>>, <<-1, 0, 0>>, <<-1, 1, 0>>, <<0, 1, -2>>, <<1, 1, -2>>}

\* the lists a single call of analyze_elite_signal is tried on: no day at all, or
\* about MinHistory of them, falling a tick a day and rising on at most MaxRise days
CallShapes ==
    {sh \in HistShapes :
        sh[1] = 0 \/ (sh[1] >= MinHistory - 1 /\ sh[3] = 1 /\ sh[4] <= MaxRise)}

\* damage is tried on one shape of the latest day
CallCases ==
    {<<bar, dmg>> \in BarShapes \X Damages : dmg[1] = "whole" \/ bar = StrongBar}

\* how the two requests of one call end: both succeed, or one of them fails
CallAnswers(data) ==
    {<<Http(200, data), Http(200, data)>>,
     <<Exc, Http(200, data)>>, <<Http(200, data), Exc>>,
     <<Http(500, <<>>), Http(200, data)>>, <<Http(200, data), Http(500, <<>>)>>}

CallSymbols == {kse_100_symbols[1], Sym("XYZ", "US")}

\* what the provider holds for a symbol during a scan, and how its two requests end
StrongDays == Dataset(15, 14, 1, 0, -1, 1, -2, 300000)
MildDays   == Dataset(15, 9, 1, 3, -1, 1, -2, 150000)
FlatDays   == Dataset(15, 0, 1, 0, 0, 0, 0, 150000)
ShortDays  == Dataset(10, 9, 1, 0, -1, 1, -2, 300000)

ScanAnswers ==
    {<<Http(200, StrongDays), Http(200, StrongDays)>>,
     <<Http(200, MildDays), Http(200, MildDays)>>,
     <<Http(200, FlatDays), Http(200, FlatDays)>>,
     <<Http(200, ShortDays), Http(200, ShortDays)>>,
     <<Http(200, <<>>), Http(200, <<>>)>>,
     <<Exc, Http(200, StrongDays)>>,
     <<Http(200, StrongDays), Http(500, <<>>)>>,
     <<Http(200, Damage(StrongDays, <<"null", "volume">>)),
       Http(200, Damage(StrongDays, <<"null", "volume">>))>>,
     <<Http(200, Damage(StrongDays, <<"zero", "close">>)),
       Http(200, Damage(StrongDays, <<"zero", "close">>))>>}

-----------------------------------------------------------------------------
(* The state machine *)

NoSymbol == Sym("", "")

\* the data of a symbol is usable: a bar with a positive close and at least
\* MinHistory closes (the two early returns of analyze_elite_signal do not fire)
DataUsable(sym, r_eod, r_hist) ==
    LET eod_data == fetch_eod_data(sym, r_eod)
        hist     == fetch_historical_data(sym, r_hist)
    IN  /\ eod_data.k = "dict"
        /\ eod_data.close.k = "fin"
        /\ FGt(eod_data.close, Zero)
        /\ hist.k = "list"
        /\ Len(hist.items) >= MinHistory

Idle ==
    /\ i = 0
    /\ signals = <<>>
    /\ successful_scans = 0
    /\ failed_scans = 0
    /\ usable = <<>>
    /\ symbol = NoSymbol
    /\ resp_eod = Exc
    /\ resp_hist = Exc
    /\ signal = None
    /\ raised = FALSE
    /\ shown = <<>>
    /\ closes_in = <<>>
    /\ rsi_out = Fifty

\* main() drawn, the button not yet pressed
Init == pc = "idle" /\ Idle

\* the button is pressed: run_kse100_scan starts (lines 264-270)
StartScan ==
    /\ pc \in {"idle", "shown"}
    /\ pc' = "scanning"
    /\ i' = 0
    /\ signals' = <<>>
    /\ successful_scans' = 0
    /\ failed_scans' = 0
    /\ usable' = <<>>
    /\ shown' = <<>>
    /\ UNCHANGED <<symbol, resp_eod, resp_hist, signal, raised, closes_in, rsi_out>>

\* a loop that stops at the first symbol without a signal
NextIndexBreak(idx, r) == IF r.k = "signal" THEN idx + 1 ELSE NumSymbols

\* for i, symbol in enumerate(self.kse_100_symbols): the loop goes on to the next symbol
NextIndex(idx, r) == idx + 1

\* one iteration of the for loop of run_kse100_scan
ScanSymbol ==
    /\ pc = "scanning"
    /\ i < NumSymbols
    /\ \E ans \in ScanAnswers :
        LET sym == kse_100_symbols[i + 1]
            r1  == ans[1]
            r2  == ans[2]
        IN  \E r \in {analyze_elite_signal(sym, r1, r2)} :   \* signal = self.analyze_elite_signal(symbol)
            /\ symbol' = sym
            /\ resp_eod' = r1
            /\ resp_hist' = r2
            /\ usable' = Append(usable, DataUsable(sym, r1, r2))
            /\ IF r.k = "raise"
               THEN /\ raised' = TRUE
                    /\ signal' = None
                    /\ pc' = "crashed"
                    /\ UNCHANGED <<i, signals, successful_scans, failed_scans>>
               ELSE /\ raised' = FALSE
                    /\ signal' = r
                    /\ pc' = "scanning"
                    /\ i' = NextIndex(i, r)
                    /\ IF r.k = "signal"
                       THEN /\ signals' = Append(signals, r)
                            /\ successful_scans' = successful_scans + 1
                            /\ failed_scans' = failed_scans
                       ELSE /\ signals' = signals
                            /\ successful_scans' = successful_scans
                            /\ failed_scans' = failed_scans + 1
    /\ UNCHANGED <<shown, closes_in, rsi_out>>

\* the loop is over: return signals, successful_scans, failed_scans (line 286)
ReturnScan ==
    /\ pc = "scanning"
    /\ i = NumSymbols
    /\ pc' = "returned"
    /\ UNCHANGED <<i, signals, successful_scans, failed_scans, usable, symbol, resp_eod,
                   resp_hist, signal, raised, shown, closes_in, rsi_out>>

\* main(), lines 328-369: the signals are sorted and displayed
Present ==
    /\ pc = "returned"
    /\ pc' = "shown"
    /\ shown' = IF signals # <<>> THEN SortByConfidenceDesc(signals) ELSE <<>>
    /\ UNCHANGED <<i, signals, successful_scans, failed_scans, usable, symbol, resp_eod,
                   resp_hist, signal, raised, closes_in, rsi_out>>

Next == StartScan \/ ScanSymbol \/ ReturnScan \/ Present

Spec == Init /\ [][Next]_vars

\* the steps main() takes by itself once the button was pressed: it runs on until
\* the signals are shown
Run == ScanSymbol \/ ReturnScan \/ Present

FairSpec == Init /\ [][Next]_vars /\ WF_vars(Run)

-----------------------------------------------------------------------------
(* Single calls of the two functions on inputs drawn within the bounds *)

\* the argument `symbol` is drawn first, the provider's answers by the call
CallInit ==
    /\ pc = "ready"
    /\ symbol \in CallSymbols
    /\ i = 0
    /\ signals = <<>>
    /\ successful_scans = 0
    /\ failed_scans = 0
    /\ usable = <<>>
    /\ resp_eod = Exc
    /\ resp_hist = Exc
    /\ signal = None
    /\ raised = FALSE
    /\ shown = <<>>
    /\ closes_in = <<>>
    /\ rsi_out = Fifty

CallAnalyze ==
    /\ pc = "ready"
    /\ \E sh \in CallShapes : \E cs \in CallCases : \E v \in Volumes :
        LET data == Damage(Dataset(sh[1], sh[2], sh[3], sh[4],
                                   cs[1][1], cs[1][2], cs[1][3], v), cs[2])
        IN
        \E ans \in CallAnswers(data) :
            /\ (ans[1].k = "exc" \/ ans[2].k = "exc" \/ ans[1].status # 200
                  \/ ans[2].status # 200) => (cs = <<StrongBar, <<"whole", "">>>> /\ v = 300000)
            /\ \E r \in {analyze_elite_signal(symbol, ans[1], ans[2])} :
                  /\ resp_eod' = ans[1]
                  /\ resp_hist' = ans[2]
                  /\ raised' = (r.k = "raise")
                  /\ signal' = IF r.k = "raise" THEN None ELSE r
    /\ pc' = "analyzed"
    /\ UNCHANGED <<i, signals, successful_scans, failed_scans, usable, symbol, shown,
                   closes_in, rsi_out>>

CallRsi ==
    /\ pc = "ready"
    /\ \E sh \in HistShapes :
        LET closes == Closes(sh[1], sh[2], sh[3], sh[4]) IN
        /\ closes_in' = closes
        /\ rsi_out' = calculate_rsi(closes, RsiWindow)
    /\ pc' = "rsi"
    /\ UNCHANGED <<i, signals, successful_scans, failed_scans, usable, symbol,
                   resp_eod, resp_hist, signal, raised, shown>>

CallNext == CallAnalyze \/ CallRsi

CallSpec == CallInit /\ [][CallNext]_vars

-----------------------------------------------------------------------------
(* What the last call of analyze_elite_signal was given *)

LastEod    == fetch_eod_data(symbol, resp_eod)
LastHist   == fetch_historical_data(symbol, resp_hist)
LastCloses == LastHist.items
LastRsi    == calculate_rsi(LastCloses, RsiWindow)
LastRatio  == volume_ratio(symbol, LastEod)

Analyzed == pc = "analyzed"
Emitted  == Analyzed /\ signal.k = "signal"

\* the call got a bar with a positive close, MinHistory closes or more, no JSON null
Evaluated ==
    /\ Analyzed
    /\ DataUsable(symbol, resp_eod, resp_hist)
    /\ \A key \in {"open", "high", "low", "volume"} : LastEod[key].k = "fin"
    /\ \A j \in 1..Len(LastCloses) : LastCloses[j].k = "fin"

\* the four conditions of the gate, on the fetched data, with the configured numbers
RsiOversold  == FLt(LastRsi, F(26, 1))
VolumeSurge  == FGt(LastRatio, F(5, 2))
Bullish      == FGt(LastEod.close, LastEod.open)
StrongClose  == FGt(price_strength(LastEod), F(6, 10))

-----------------------------------------------------------------------------
(* C1: analyze_elite_signal returns a signal only if RSI < rsi_oversold,       *)
(* volume_ratio > volume_surge, close > open and price_strength > 0.6 all hold *)
(* for the fetched data; if one of them is false the result is None.           *)
C1_GateIsConjunction ==
    /\ Emitted => (Evaluated /\ RsiOversold /\ VolumeSurge /\ Bullish /\ StrongClose)
    /\ (Evaluated /\ ~(RsiOversold /\ VolumeSurge /\ Bullish /\ StrongClose))
          => signal = None

\* a signal was emitted, so all four conditions were met at once
C1_Witness == Emitted /\ RsiOversold /\ VolumeSurge /\ Bullish /\ StrongClose

-----------------------------------------------------------------------------
(* C4: every emitted signal's confidence c has 0 <= c <= 10 and c >= 7.0, and  *)
(* is the clamped value of the formula (reported to one decimal); whenever the *)
(* clamped confidence is below min_confidence the result is None.              *)
C4_Formula ==
    LET rsi_term == FMul(FDiv(FSub(F(26, 1), LastRsi), F(8, 1)), F(5, 2))
        vol_term == FSub(PyMin(FDiv(LastRatio, F(2, 1)), F(5, 2)), F(1, 1))
        sum      == FAdd(FAdd(FAdd(F(6, 1), rsi_term), vol_term), F(8, 10))
    IN  IF FLt(sum, Zero) THEN Zero ELSE IF FGt(sum, F(10, 1)) THEN F(10, 1) ELSE sum

C4_ConfidenceBounds ==
    /\ Emitted =>
          /\ IsFin(signal.confidence)
          /\ FLe(Zero, signal.confidence)
          /\ FLe(signal.confidence, F(10, 1))
          /\ FGe(signal.confidence, F(7, 1))
          /\ FGe(C4_Formula, F(7, 1))
          /\ signal.confidence = PyRound(C4_Formula, 1)
    /\ (Evaluated /\ FLt(confidence(LastRsi, LastRatio), F(7, 1))) => signal = None

\* a signal whose unclamped score is above 10: the clamp acted
C4_Witness ==
    /\ Emitted
    /\ FGt(raw_confidence(LastRsi, LastRatio), F(10, 1))
    /\ signal.confidence = F(10, 1)

-----------------------------------------------------------------------------
(* C5: calculate_rsi(closes, 14) returns r with 0 <= r <= 100 for every price  *)
(* sequence, and exactly 50 for fewer than 15 prices; this includes sequences  *)
(* with no loss in the last 14 differences (constant, strictly rising).        *)
C5_RsiBounds ==
    pc = "rsi" =>
        /\ IsFin(rsi_out)
        /\ FLe(Zero, rsi_out)
        /\ FLe(rsi_out, Hundred)
        /\ Len(closes_in) < RsiWindow + 1 => rsi_out = Fifty

-----------------------------------------------------------------------------
(* C6: no undefined value reaches a signal: in a degenerate case (zero range,  *)
(* zero average loss, zero volume) analyze_elite_signal returns None or a      *)
(* signal whose numbers are all defined, and it never raises to its caller.    *)
C6_TotalAndDefined ==
    Analyzed =>
        /\ ~raised
        /\ \/ signal = None
           \/ /\ signal.k = "signal"
              /\ \A f \in {"price", "rsi", "volume_ratio", "confidence", "target", "stop_loss"} :
                    IsFin(signal[f])

\* a call whose RSI window has no gain and no loss (0/0), answered with None
C6_Witness ==
    /\ Evaluated
    /\ LastRsi.k = "nan"
    /\ FSub(LastEod.high, LastEod.low) # Zero
    /\ signal = None

-----------------------------------------------------------------------------
(* C7: a provider record with a positive close that omits open, high, low or   *)
(* volume is usable: the symbol is evaluated on the bar with open, high, low   *)
(* set to the close and volume set to 0.                                       *)
WithDefaults(day) ==
    [key \in EodKeys |->
        IF key \in DOMAIN day THEN day[key]
        ELSE IF key = "volume" THEN Zero ELSE day["close"]]

C7_DefaultsApplied ==
    (/\ Analyzed
     /\ resp_eod.k = "http" /\ resp_eod.status = 200 /\ Len(resp_eod.data) > 0
     /\ LET day == resp_eod.data[Len(resp_eod.data)] IN
           /\ {"close", "date"} \subseteq DOMAIN day
           /\ DOMAIN day # EodKeys
           /\ day["close"].k = "fin" /\ FGt(day["close"], Zero))
    => LET n   == Len(resp_eod.data)
           fix == [resp_eod EXCEPT !.data[n] = WithDefaults(resp_eod.data[n])]
       IN  signal = analyze_elite_signal(symbol, fix, resp_hist)

-----------------------------------------------------------------------------
(* C8: an emitted signal's price is the bar's close, its target is             *)
(* close * 1.028 and its stop_loss close * 0.992, each to two decimals.        *)
NearestCent(x, exact) ==
    /\ IsFin(x)
    /\ 100 % x.d = 0
    /\ FLe(FSub(x, exact), F(1, 200))
    /\ FLe(FSub(exact, x), F(1, 200))

C8_TargetAndStop ==
    Emitted =>
        /\ signal.price = LastEod.close
        /\ NearestCent(signal.target, FMul(LastEod.close, F(1028, 1000)))
        /\ NearestCent(signal.stop_loss, FMul(LastEod.close, F(992, 1000)))

\* a signal whose target and stop are not whole cents before rounding
C8_Witness ==
    /\ Emitted
    /\ signal.target # FMul(LastEod.close, F(1028, 1000))
    /\ signal.stop_loss # FMul(LastEod.close, F(992, 1000))

-----------------------------------------------------------------------------
(* C10: with rsi_oversold = 26, volume_surge = 2.5, min_confidence = 7.0 the   *)
(* confidence check rejects nothing: whenever the gate passes the confidence   *)
(* is above 7.0 and a signal is emitted.                                       *)
C10_GateImpliesSignal ==
    (Evaluated /\ RsiOversold /\ VolumeSurge /\ Bullish /\ StrongClose) =>
        /\ FGt(C4_Formula, F(7, 1))
        /\ signal.k = "signal"

\* the gate passed narrowly: RSI 25, volume ratio just above 2.5
C10_Witness ==
    /\ Emitted
    /\ LastRsi = F(25, 1)
    /\ FLt(LastRatio, F(26, 10))

-----------------------------------------------------------------------------
(* C2: run_kse100_scan never aborts on a symbol's failure: every symbol of the *)
(* universe is evaluated exactly once, in list order, one after the other, the *)
(* scan returns after the last symbol, and what a symbol yields depends on the *)
(* provider's answers for that symbol alone.                                   *)
C2_Step ==
    (i' # i) =>
        \/ i' = 0 /\ pc' = "scanning" /\ usable' = <<>>
        \/ /\ i' = i + 1
           /\ symbol' = kse_100_symbols[i']
           /\ usable' = Append(usable, DataUsable(symbol', resp_eod', resp_hist'))
           /\ signal' = analyze_elite_signal(symbol', resp_eod', resp_hist')
           /\ signals' = IF signal'.k = "signal" THEN Append(signals, signal') ELSE signals

C2_ScanCompletes ==
    /\ [](pc # "crashed" /\ ~raised)
    /\ [](Len(usable) = i /\ i <= NumSymbols)
    /\ [](pc \in {"returned", "shown"} => i = NumSymbols)
    /\ [][C2_Step]_vars
    /\ ((pc = "scanning") ~> (pc = "returned"))

\* the scan returned although an early symbol had no usable data, and a later
\* symbol still produced its signal
C2_Witness ==
    /\ pc = "returned"
    /\ \E k \in 1..(NumSymbols - 1) :
          /\ ~usable[k]
          /\ \E j \in (k + 1)..NumSymbols : \E m \in 1..Len(signals) :
                signals[m].symbol = StripKAR(kse_100_symbols[j])

-----------------------------------------------------------------------------
(* C3: at the end of a scan failed_scans is the number of symbols whose data   *)
(* was missing or invalid and successful_scans the number of symbols with      *)
(* usable data; usable data without a signal is not a failure.                 *)
C3_FailedCountsBadData ==
    pc = "returned" =>
        /\ failed_scans = Cardinality({j \in 1..Len(usable) : ~usable[j]})
        /\ successful_scans = Cardinality({j \in 1..Len(usable) : usable[j]})

-----------------------------------------------------------------------------
(* C9: after a scan the signals are presented sorted by confidence, highest    *)
(* first, signals of equal confidence in the order their symbols were          *)
(* encountered, and the presented list holds exactly the collected signals.    *)
Pos(sig) == CHOOSE k \in 1..Len(signals) : signals[k] = sig

C9_SortedStable ==
    pc = "shown" =>
        /\ Len(shown) = Len(signals)
        /\ \A k \in 1..Len(signals) :
              Cardinality({m \in 1..Len(shown) : shown[m] = signals[k]}) = 1
        /\ \A a, b \in 1..Len(shown) :
              a < b =>
                 /\ FGe(shown[a].confidence, shown[b].confidence)
                 /\ shown[a].confidence = shown[b].confidence
                       => Pos(shown[a]) < Pos(shown[b])

\* the sort moved a signal forward and left two equal ones in their order
C9_Witness ==
    /\ pc = "shown"
    /\ shown # signals
    /\ \E a, b \in 1..Len(shown) : a < b /\ shown[a].confidence = shown[b].confidence

====
